---- MODULE Spec2Model ----
(***************************************************************************)
(* State-machine model of DRemailer (src/src/dremailer.ts), its upstream   *)
(* sender (dmailsender.ts) and the storage query of the control API        *)
(* (src/src/routes.ts).                                                    *)
(*                                                                         *)
(* Node.js runs every callback to completion, so one action is one         *)
(* callback (a timer tick, a stream event, a promise continuation chain,   *)
(* an fs completion).  Everything that is awaited across the event loop    *)
(* (the upstream SMTP round trip, the write stream, fs.rename, fs.unlink,  *)
(* fs.readdir) is a separate action that may interleave with the others.   *)
(***************************************************************************)
EXTENDS Integers, Sequences, FiniteSets, TLC

\* ------------------------------------------------------------------ bounds
MaxPre == 1        \* spool files already in eml-parking when the process starts
MaxSessions == 2   \* ingress messages (one SMTP DATA each) received in a run
MaxInflight == 2   \* relay forwards that may be pending upstream at once
MaxUnavail == 1    \* spool directories that initStorage() could not create
MaxOrphans == 1    \* intervals left running after their handle was overwritten
MaxGone == 1       \* spool directories removed from disk while the program runs
StampLen == 1      \* digits of a receipt timestamp
MaxIdLen == 2      \* characters of a session id
MaxAddrLen == 1    \* characters of an envelope address
MaxRcpt == 1       \* recipients of an envelope

\* ------------------------------------------------------- program constants
TimerIntervalSec == 2

Dirs == {"parking", "direct", "error", "parking_backup", "direct_backup"}
Sessions == 1..MaxSessions
Files == 1..(MaxPre + MaxSessions)
Slots == 1..MaxInflight

VARIABLES
    \* configuration (DRemailerConfig, fixed by the constructor)
    timerIntervalMs, backupEnabled, senderSmtpHost,
    \* this.eml*Dir: TRUE = a path, FALSE = undefined
    emlParkingDir, emlDirectDir, emlErrorDir, emlParkingBackupDir, emlDirectBackupDir,
    gone,             \* the spool directories that no longer exist on disk
    \* the five in-memory queues
    emlParkingQueue, emlDirectQueue, emlErrorQueue, emlParkingBackupQueue, emlDirectBackupQueue,
    \* flags
    statusReady, listenerRunning, listenerPaused, senderPaused, emlScanning,
    timerHandle,      \* TRUE while the setInterval ticker is armed
    leaked,           \* intervals still running whose handle timerHandle no longer holds
    lifecycle,        \* "constructed" (after New), "binding" (listen() called), "running",
                      \* "closed" (smtpServer.close() called), "unbound" (listen() failed)
    bind,             \* listen() calls made, the last "error" event, the retry timeout pending
    transporter,      \* DMailSender.transporter is defined
    parkedAtStop,     \* observation: the files at rest in parking at the last stop()
    \* the file system
    disk,             \* [Dirs -> SUBSET Files]: the .eml files of each directory
    partial,          \* files whose write stream has not finished yet
    pendingMoves,     \* fs.rename calls issued by moveToError, not yet completed
    \* activities in progress
    sess,             \* per ingress message: position of its onData invocation
    relay,            \* per slot: a forwardOne() promise chain in progress
    scanPending,      \* directories whose findFiles() of scanStorageAsync is pending
    scanRes,          \* results of the findFiles() calls that have resolved
    scanDisk,         \* observation: the directories' content when the running scan was called
    \* observation (history) variables
    sent,             \* per file: successful upstream submissions (capped at 2)
    lastAttempt,      \* the filename forwardOne() tried to forward last (0: none)
    anyFail,          \* some forward has failed in this run
    \* the environment of the run, fixed at the start
    load,             \* how many messages the producers send
    fsFaulty,         \* file operations (write, rename, unlink) may fail
    overlap,          \* an upstream round trip or a rename may outlast the tick interval
    \* the control HTTP API
    api,              \* which bootstrap listens: "none", "admin" (main.ts), "routes" (routes.ts)
    reply,            \* observation: the last answer (request parity, key validity, status code)
    summary,          \* observation: the timer section of the last status snapshot returned
    named             \* observation: session id and file name of two messages being compared

\* cfgVars: what is fixed for the whole run (configuration and environment)
cfgVars == <<timerIntervalMs, backupEnabled, senderSmtpHost, load, fsFaulty, overlap>>
dirFields == <<emlParkingDir, emlDirectDir, emlErrorDir, emlParkingBackupDir, emlDirectBackupDir>>
dirVars == <<dirFields, gone>>
otherQueues == <<emlDirectQueue, emlErrorQueue, emlParkingBackupQueue, emlDirectBackupQueue>>
queueVars == <<emlParkingQueue, otherQueues>>
pauseVars == <<listenerPaused, senderPaused>>
runVars == <<listenerRunning, timerHandle, leaked, lifecycle, bind, transporter, parkedAtStop>>
fsVars == <<disk, partial, pendingMoves>>
scanVars == <<scanPending, scanRes, scanDisk>>
histVars == <<sent, lastAttempt, anyFail>>
apiVars == <<api, reply, summary>>
vars == <<named, apiVars, cfgVars, dirVars, queueVars, pauseVars, runVars, statusReady, emlScanning,
          fsVars, sess, relay, scanVars, histVars>>

\* ----------------------------------------------------------------- helpers
\* The filename saveEmailToDisk() computes starts with the receipt timestamp
\* (new Date().toISOString() digits), so filenames sort in the order in which
\* the messages were received; pre-existing spool files are older.
NameOf(s) == MaxPre + s

\* fs.readdir returns the entries of a directory in no particular order.
Perms(S) == { p \in [1..Cardinality(S) -> S] : \A x \in S : \E i \in 1..Cardinality(S) : p[i] = x }

findFiles(d) == Perms(disk[d])

isSenderReady == senderSmtpHost

isStorageReady ==
    emlParkingDir /\ emlDirectDir /\ emlErrorDir /\ emlParkingBackupDir /\ emlDirectBackupDir

\* isStorageReady(true), its answer: the five fields are set and every
\* folder exists.
isStorageReadyExisting == isStorageReady /\ gone = {}

\* isStorageReady(true), its effect: when the five fields are set, the
\* field of each folder that does not exist becomes undefined.
Checked(field, d) == field /\ ~(isStorageReady /\ d \in gone)
checkExisting ==
    /\ emlParkingDir' = Checked(emlParkingDir, "parking")
    /\ emlDirectDir' = Checked(emlDirectDir, "direct")
    /\ emlErrorDir' = Checked(emlErrorDir, "error")
    /\ emlParkingBackupDir' = Checked(emlParkingBackupDir, "parking_backup")
    /\ emlDirectBackupDir' = Checked(emlDirectBackupDir, "direct_backup")
    /\ UNCHANGED gone

Inc(n) == IF n < 2 THEN n + 1 ELSE 2

\* The answers a file operation can give: ok, or (on a faulty file system) an error.
FsOutcomes == IF fsFaulty THEN BOOLEAN ELSE {TRUE}

\* A move that copies the file and leaves the source in place.
RenamedCopy(f, from, to, ok) ==
    IF ok /\ f \in disk[from]
    THEN [disk EXCEPT ![to] = @ \cup {f}]
    ELSE disk

\* fs.rename(from/f, to/f): succeeds only if the file is there and the call
\* does not fail for another reason (ok is the environment's answer).
Renamed(f, from, to, ok) ==
    IF ok /\ f \in disk[from]
    THEN [disk EXCEPT ![from] = @ \ {f}, ![to] = @ \cup {f}]
    ELSE disk

Unlinked(f, from, ok) ==
    IF ok /\ f \in disk[from] THEN [disk EXCEPT ![from] = @ \ {f}] ELSE disk

\* moveToError(): returns at once when the error folder is unavailable,
\* otherwise issues an fs.rename whose callback only logs.
moveToError(f, from) ==
    IF emlErrorDir THEN pendingMoves \cup {<<f, from>>} ELSE pendingMoves

IdleSess == [pc |-> "idle", path |-> "none", cb |-> 0, ack |-> "none", rej |-> 0,
             lp |-> FALSE, fwd |-> "none"]
IdleSlot == [ph |-> "idle", f |-> 0]

\* callback(err?) of smtp-server's onData: the first call decides the reply.
Callback(r, res) == [r EXCEPT !.cb = Inc(@), !.ack = IF r.cb = 0 THEN res ELSE @]
Reject(r, path) == [Callback(r, "err") EXCEPT !.rej = Inc(@), !.pc = "done", !.path = path]

\* --------------------------------------------------------------------- Init
\* The state after DRemailer.New(config): constructor and init().  Of the
\* files an earlier run left in the spool, those of the set left are in the
\* direct folder and the others in the parking folder.
InitFrom(left) ==
    /\ timerIntervalMs \in {0, TimerIntervalSec * 1000}
    /\ backupEnabled \in BOOLEAN
    /\ senderSmtpHost \in BOOLEAN
    /\ load \in 0..MaxSessions
    /\ fsFaulty \in BOOLEAN
    /\ overlap \in BOOLEAN
    /\ \E una \in { S \in SUBSET Dirs : Cardinality(S) <= MaxUnavail } :
          /\ emlParkingDir = ("parking" \notin una)
          /\ emlDirectDir = ("direct" \notin una)
          /\ emlErrorDir = ("error" \notin una)
          /\ emlParkingBackupDir = ("parking_backup" \notin una)
          /\ emlDirectBackupDir = ("direct_backup" \notin una)
          /\ statusReady = (senderSmtpHost \/ una = {})
          /\ \E k \in 0..MaxPre :
                disk = [d \in Dirs |-> IF d = "parking" /\ "parking" \notin una
                                       THEN (1..k) \ left
                                       ELSE IF d = "direct" /\ "direct" \notin una
                                       THEN (1..k) \cap left
                                       ELSE {}]
    /\ emlParkingQueue = <<>>
    /\ emlDirectQueue = <<>>
    /\ emlErrorQueue = <<>>
    /\ emlParkingBackupQueue = <<>>
    /\ emlDirectBackupQueue = <<>>
    /\ listenerRunning = FALSE
    /\ listenerPaused = FALSE
    /\ senderPaused = FALSE
    /\ emlScanning = FALSE
    /\ timerHandle = FALSE
    /\ leaked = 0
    /\ gone = {}
    /\ lifecycle = "constructed"
    /\ bind = [calls |-> 0, error |-> "none", retry |-> FALSE]
    /\ transporter = senderSmtpHost
    /\ parkedAtStop = {}
    /\ partial = {}
    /\ pendingMoves = {}
    /\ sess = [s \in Sessions |-> IdleSess]
    /\ relay = [i \in Slots |-> IdleSlot]
    /\ scanPending = {}
    /\ scanRes = [d \in Dirs |-> <<>>]
    /\ scanDisk = [d \in Dirs |-> {}]
    /\ sent = [f \in Files |-> 0]
    /\ lastAttempt = 0
    /\ anyFail = FALSE
    /\ api = "none"
    /\ reply = [seq |-> 0, valid |-> TRUE, code |-> 0]
    /\ summary = [taken |-> FALSE, enabled |-> FALSE, sec |-> 0]
    /\ named = <<>>

\* The state after New() over the spool of a run in parking mode.
Init == InitFrom({})

\* ------------------------------------------------------------ start-up
\* scanStorageSync(): the part of an action that replaces the queues.
scanStorageSync ==
    /\ checkExisting
    /\ IF ~isStorageReadyExisting
       THEN /\ emlParkingQueue' = <<>>
            /\ emlDirectQueue' = <<>>
            /\ emlErrorQueue' = <<>>
            /\ emlParkingBackupQueue' = <<>>
            /\ emlDirectBackupQueue' = <<>>
            /\ statusReady' = FALSE
       ELSE IF emlScanning
       THEN UNCHANGED <<queueVars, statusReady>>
       ELSE /\ emlParkingQueue' \in findFiles("parking")
            /\ emlDirectQueue' \in findFiles("direct")
            /\ emlErrorQueue' \in findFiles("error")
            /\ emlParkingBackupQueue' \in findFiles("parking_backup")
            /\ emlDirectBackupQueue' \in findFiles("direct_backup")
            /\ statusReady' = TRUE

\* A start() that does not look at status.ready.
StartUnready ==
    /\ lifecycle = "constructed"
    /\ IF senderPaused
       THEN /\ senderPaused' = FALSE
            /\ UNCHANGED <<dirVars, queueVars, statusReady, timerHandle, lifecycle, bind>>
       ELSE /\ timerHandle' = FALSE
            /\ IF emlParkingDir THEN scanStorageSync
                                ELSE UNCHANGED <<dirVars, queueVars, statusReady>>
            /\ lifecycle' = "binding"
            /\ bind' = [bind EXCEPT !.calls = @ + 1]
            /\ UNCHANGED senderPaused
    /\ UNCHANGED <<named, apiVars, cfgVars, listenerPaused, listenerRunning, transporter,
                   parkedAtStop, leaked, emlScanning, fsVars, sess, relay, scanVars, histVars>>

\* start(), called once by main.ts after New().
Start ==
    /\ lifecycle = "constructed"
    /\ IF ~statusReady
       THEN UNCHANGED <<dirVars, queueVars, statusReady, senderPaused, timerHandle, lifecycle, bind>>
       ELSE IF senderPaused
       THEN /\ senderPaused' = FALSE
            /\ UNCHANGED <<dirVars, queueVars, statusReady, timerHandle, lifecycle, bind>>
       ELSE /\ timerHandle' = FALSE
            /\ IF emlParkingDir THEN scanStorageSync
                                ELSE UNCHANGED <<dirVars, queueVars, statusReady>>
            /\ lifecycle' = "binding"
            /\ bind' = [bind EXCEPT !.calls = @ + 1]
            /\ UNCHANGED senderPaused
    /\ UNCHANGED <<named, apiVars, cfgVars, listenerPaused, listenerRunning, transporter,
                   parkedAtStop, leaked, emlScanning, fsVars, sess, relay, scanVars, histVars>>

\* startSenderTimer(): whether the ticker is armed afterwards.
startSenderTimer ==
    IF ~isSenderReady \/ senderPaused THEN timerHandle
    ELSE IF timerIntervalMs <= 0 THEN timerHandle
    ELSE TRUE

\* startSenderTimer(): the intervals left running without a handle
\* afterwards.  The new handle is assigned without clearing the old one.
Orphaned ==
    IF isSenderReady /\ ~senderPaused /\ timerIntervalMs > 0 /\ timerHandle
    THEN leaked + 1
    ELSE leaked

\* The callback of smtpServer.listen(): the listener is bound.
Listening ==
    /\ lifecycle = "binding"
    /\ statusReady' = TRUE
    /\ timerHandle' = IF timerIntervalMs > 0 THEN startSenderTimer ELSE timerHandle
    /\ leaked' = IF timerIntervalMs > 0 THEN Orphaned ELSE leaked
    /\ leaked' <= MaxOrphans
    /\ listenerRunning' = TRUE
    /\ lifecycle' = "running"
    /\ UNCHANGED <<named, apiVars, cfgVars, dirVars, queueVars, pauseVars, emlScanning, transporter, bind,
                   parkedAtStop, fsVars, sess, relay, scanVars, histVars>>


\* ------------------------------------------------------------ control API
suspendSender(b) ==
    /\ lifecycle # "constructed"
    /\ senderPaused' = b
    /\ UNCHANGED <<named, apiVars, cfgVars, dirVars, queueVars, listenerPaused, runVars, statusReady,
                   emlScanning, fsVars, sess, relay, scanVars, histVars>>

suspendListener(b) ==
    /\ lifecycle # "constructed"
    /\ listenerPaused' = b
    /\ UNCHANGED <<named, apiVars, cfgVars, dirVars, queueVars, senderPaused, runVars, statusReady,
                   emlScanning, fsVars, sess, relay, scanVars, histVars>>

\* ---------------------------------------------------------------- ingress
\* An admission decision that forgets the listener pause.
AdmissionNoPause ==
    IF ~statusReady THEN "notready"
    ELSE IF timerIntervalMs > 0
         THEN (IF ~emlParkingDir THEN "nodir" ELSE "parking")
         ELSE (IF ~emlDirectDir THEN "nodir" ELSE "direct")

\* The admission decision onData() takes before it reads the body.
Admission ==
    IF ~statusReady THEN "notready"
    ELSE IF listenerPaused THEN "paused"
    ELSE IF timerIntervalMs > 0
         THEN (IF ~emlParkingDir THEN "nodir" ELSE "parking")
         ELSE (IF ~emlDirectDir THEN "nodir" ELSE "direct")

Arrives(s) ==
    /\ listenerRunning
    /\ lifecycle = "running"
    /\ s <= load
    /\ sess[s].pc = "idle"
    /\ \A t \in Sessions : t < s => sess[t].pc # "idle"

\* onData(), rejecting branches: the body is piped to nullStream(),
\* callback(err) and onReject are called.
OnDataReject(s) ==
    /\ Arrives(s)
    /\ Admission \in {"notready", "paused", "nodir"}
    /\ sess' = [sess EXCEPT ![s] = [Reject(@, Admission) EXCEPT !.lp = listenerPaused]]
    /\ UNCHANGED <<named, apiVars, cfgVars, dirVars, queueVars, pauseVars, runVars, statusReady,
                   emlScanning, fsVars, relay, scanVars, histVars>>

\* onData(), timer enabled: saveEmailToDisk() opens the write stream in
\* the parking folder; nothing is answered yet.
OnDataParking(s) ==
    /\ Arrives(s)
    /\ Admission = "parking"
    /\ disk' = [disk EXCEPT !["parking"] = @ \cup {NameOf(s)}]
    /\ partial' = partial \cup {NameOf(s)}
    /\ sess' = [sess EXCEPT ![s] = [@ EXCEPT !.pc = "saving", !.path = "parking",
                                              !.lp = listenerPaused]]
    /\ UNCHANGED <<named, apiVars, cfgVars, dirVars, queueVars, pauseVars, runVars, statusReady,
                   emlScanning, pendingMoves, relay, scanVars, histVars>>

\* onData(), timer disabled: saveEmailToDisk() opens the write stream in
\* the direct folder.
OnDataDirect(s) ==
    /\ Arrives(s)
    /\ Admission = "direct"
    /\ disk' = [disk EXCEPT !["direct"] = @ \cup {NameOf(s)}]
    /\ partial' = partial \cup {NameOf(s)}
    /\ sess' = [sess EXCEPT ![s] = [@ EXCEPT !.pc = "saving", !.path = "direct",
                                              !.lp = listenerPaused]]
    /\ UNCHANGED <<named, apiVars, cfgVars, dirVars, queueVars, pauseVars, runVars, statusReady,
                   emlScanning, pendingMoves, relay, scanVars, histVars>>

\* 'finish' of the write stream, parking path: the name is queued and the
\* client is answered.
SaveFinishParking(s) ==
    /\ sess[s].pc = "saving"
    /\ sess[s].path = "parking"
    /\ partial' = partial \ {NameOf(s)}
    /\ emlParkingQueue' = Append(emlParkingQueue, NameOf(s))
    /\ sess' = [sess EXCEPT ![s] = [Callback(@, "ok") EXCEPT !.pc = "done"]]
    /\ UNCHANGED <<named, apiVars, cfgVars, dirVars, otherQueues, pauseVars, runVars, statusReady,
                   emlScanning, disk, pendingMoves, relay, scanVars, histVars>>

\* 'finish' of the write stream, direct path: forward now unless the
\* sender is paused.  forward() rejects at once when there is no mailSender
\* (without moveToError) or when forwardEml() does not find the file or has
\* no transporter (with moveToError).
SaveFinishDirect(s) ==
    /\ sess[s].pc = "saving"
    /\ sess[s].path = "direct"
    /\ partial' = partial \ {NameOf(s)}
    /\ IF senderPaused
       THEN /\ sess' = [sess EXCEPT ![s] = [@ EXCEPT !.pc = "done", !.fwd = "skipped"]]
            /\ UNCHANGED pendingMoves
       ELSE IF ~senderSmtpHost
       THEN /\ sess' = [sess EXCEPT ![s] = [Reject(@, "direct") EXCEPT !.fwd = "fail"]]
            /\ UNCHANGED pendingMoves
       ELSE IF NameOf(s) \notin disk["direct"] \/ ~transporter
       THEN /\ sess' = [sess EXCEPT ![s] = [Reject(@, "direct") EXCEPT !.fwd = "fail"]]
            /\ pendingMoves' = moveToError(NameOf(s), "direct")
       ELSE /\ sess' = [sess EXCEPT ![s] = [@ EXCEPT !.pc = "forwarding"]]
            /\ UNCHANGED pendingMoves
    /\ UNCHANGED <<named, apiVars, cfgVars, dirVars, queueVars, pauseVars, runVars, statusReady,
                   emlScanning, disk, relay, scanVars, histVars>>

\* 'error' of the write stream: callback(err) and onReject; the code does
\* not remove what was written (keep: whether the file had been created).
SaveError(s) ==
    /\ fsFaulty
    /\ sess[s].pc = "saving"
    /\ \E keep \in BOOLEAN :
          disk' = IF keep THEN disk ELSE [d \in Dirs |-> disk[d] \ {NameOf(s)}]
    /\ partial' = partial \ {NameOf(s)}
    /\ sess' = [sess EXCEPT ![s] = Reject(@, @.path)]
    /\ UNCHANGED <<named, apiVars, cfgVars, dirVars, queueVars, pauseVars, runVars, statusReady,
                   emlScanning, pendingMoves, relay, scanVars, histVars>>

\* Direct path, forward() resolved: callback() first, then backup or delete.
\* moveToDirectBackup() rejects at once when the backup folder is unavailable.
DirectSendOk(s) ==
    /\ sess[s].pc = "forwarding"
    /\ sent' = [sent EXCEPT ![NameOf(s)] = Inc(@)]
    /\ sess' = [sess EXCEPT ![s] = [Callback(@, "ok") EXCEPT
                    !.fwd = "ok",
                    !.pc = IF backupEnabled /\ ~emlDirectBackupDir THEN "done" ELSE "post"]]
    /\ UNCHANGED <<named, apiVars, cfgVars, dirVars, queueVars, pauseVars, runVars, statusReady,
                   emlScanning, fsVars, relay, scanVars, lastAttempt, anyFail>>

\* A failure handler that answers callback() without the error.
DirectSendFailAcks(s) ==
    /\ sess[s].pc = "forwarding"
    /\ pendingMoves' = moveToError(NameOf(s), "direct")
    /\ sess' = [sess EXCEPT ![s] = [Callback(@, "ok") EXCEPT !.pc = "done", !.fwd = "fail"]]
    /\ anyFail' = TRUE
    /\ UNCHANGED <<named, apiVars, cfgVars, dirVars, queueVars, pauseVars, runVars, statusReady,
                   emlScanning, disk, partial, relay, scanVars, sent, lastAttempt>>

\* Direct path, forward() rejected by the upstream sender: moveToError(),
\* callback(err), onReject.
DirectSendFail(s) ==
    /\ sess[s].pc = "forwarding"
    /\ pendingMoves' = moveToError(NameOf(s), "direct")
    /\ sess' = [sess EXCEPT ![s] = [Reject(@, "direct") EXCEPT !.fwd = "fail"]]
    /\ anyFail' = TRUE
    /\ UNCHANGED <<named, apiVars, cfgVars, dirVars, queueVars, pauseVars, runVars, statusReady,
                   emlScanning, disk, partial, relay, scanVars, sent, lastAttempt>>

\* Direct path, the fs.rename of moveToDirectBackup() or the fs.unlink
\* completed; a failure is only reported.
DirectPostDone(s) ==
    /\ sess[s].pc = "post"
    /\ \E ok \in FsOutcomes :
          disk' = IF backupEnabled
                  THEN Renamed(NameOf(s), "direct", "direct_backup", ok)
                  ELSE Unlinked(NameOf(s), "direct", ok)
    /\ sess' = [sess EXCEPT ![s] = [@ EXCEPT !.pc = "done"]]
    /\ UNCHANGED <<named, apiVars, cfgVars, dirVars, queueVars, pauseVars, runVars, statusReady,
                   emlScanning, partial, pendingMoves, relay, scanVars, histVars>>

\* A move to error that empties the error folder first.
MoveToErrorDoneReplace(m) ==
    /\ m \in pendingMoves
    /\ \E ok \in FsOutcomes :
          disk' = IF ok /\ m[1] \in disk[m[2]]
                  THEN [disk EXCEPT ![m[2]] = @ \ {m[1]}, !["error"] = {m[1]}]
                  ELSE disk
    /\ pendingMoves' = pendingMoves \ {m}
    /\ UNCHANGED <<named, apiVars, cfgVars, dirVars, queueVars, pauseVars, runVars, statusReady,
                   emlScanning, partial, sess, relay, scanVars, histVars>>

\* The fs.rename issued by moveToError() completed.
MoveToErrorDone(m) ==
    /\ m \in pendingMoves
    /\ \E ok \in FsOutcomes : disk' = Renamed(m[1], m[2], "error", ok)
    /\ pendingMoves' = pendingMoves \ {m}
    /\ UNCHANGED <<named, apiVars, cfgVars, dirVars, queueVars, pauseVars, runVars, statusReady,
                   emlScanning, partial, sess, relay, scanVars, histVars>>

\* ----------------------------------------------------------- relay engine
FreeSlots == { i \in Slots : relay[i].ph = "idle" }
FirstFree == CHOOSE i \in FreeSlots : \A j \in FreeSlots : i <= j

\* A forwardOne() that reads the head of the queue without removing it.
forwardOneKeepsHead ==
    IF ~emlParkingDir
    THEN /\ emlParkingQueue' = <<>>
         /\ statusReady' = FALSE
         /\ UNCHANGED <<pendingMoves, relay, histVars>>
    ELSE IF emlParkingQueue = <<>>
    THEN UNCHANGED <<emlParkingQueue, statusReady, pendingMoves, relay, histVars>>
    ELSE LET f == Head(emlParkingQueue) IN
         /\ lastAttempt' = f
         /\ UNCHANGED <<statusReady, sent, emlParkingQueue, pendingMoves, anyFail>>
         /\ FreeSlots # {}
         /\ relay' = [relay EXCEPT ![FirstFree] = [ph |-> "send", f |-> f]]

\* forwardOne(): shift the head of the parking queue and forward() it.  The
\* promise it returns is not awaited by the ticker.  When forwardEml() does
\* not find the file or has no transporter, the chain rejects within the
\* same turn of the event loop: moveToError() and the re-push happen before
\* any other callback.
forwardOne ==
    IF ~emlParkingDir
    THEN /\ emlParkingQueue' = <<>>
         /\ statusReady' = FALSE
         /\ UNCHANGED <<pendingMoves, relay, histVars>>
    ELSE IF emlParkingQueue = <<>>
    THEN UNCHANGED <<emlParkingQueue, statusReady, pendingMoves, relay, histVars>>
    ELSE LET f == Head(emlParkingQueue) IN
         /\ lastAttempt' = f
         /\ UNCHANGED <<statusReady, sent>>
         /\ IF f \notin disk["parking"] \/ ~transporter
            THEN /\ pendingMoves' = moveToError(f, "parking")
                 /\ emlParkingQueue' = Append(Tail(emlParkingQueue), f)
                 /\ anyFail' = TRUE
                 /\ UNCHANGED relay
            ELSE /\ FreeSlots # {}
                 /\ relay' = [relay EXCEPT ![FirstFree] = [ph |-> "send", f |-> f]]
                 /\ emlParkingQueue' = Tail(emlParkingQueue)
                 /\ UNCHANGED <<pendingMoves, anyFail>>

\* Some interval created by startSenderTimer() is running.
Armed == timerHandle \/ leaked > 0

\* The setInterval callback of startSenderTimer(), when it does nothing.
TickSkip ==
    /\ Armed
    /\ senderPaused \/ (emlScanning /\ Len(emlDirectQueue) > 0)
    /\ UNCHANGED <<named, apiVars, cfgVars, dirVars, queueVars, pauseVars, runVars, statusReady,
                   emlScanning, fsVars, sess, relay, scanVars, histVars>>

\* A ticker callback with the pause test inverted.
TickWhenPaused ==
    /\ timerHandle
    /\ overlap \/ (FreeSlots = Slots /\ pendingMoves = {})
    /\ senderPaused
    /\ ~(emlScanning /\ Len(emlDirectQueue) > 0)
    /\ forwardOne
    /\ UNCHANGED <<named, apiVars, cfgVars, dirVars, otherQueues, pauseVars, runVars,
                   emlScanning, disk, partial, sess, scanVars>>

\* A ticker callback that does not look at the sender pause.
TickIgnoresPause ==
    /\ timerHandle
    /\ overlap \/ (FreeSlots = Slots /\ pendingMoves = {})
    /\ ~(emlScanning /\ Len(emlDirectQueue) > 0)
    /\ forwardOne
    /\ UNCHANGED <<named, apiVars, cfgVars, dirVars, otherQueues, pauseVars, runVars,
                   emlScanning, disk, partial, sess, scanVars>>

\* A ticker callback that does not wait for the end of a rescan.
TickDuringScan ==
    /\ timerHandle
    /\ overlap \/ (FreeSlots = Slots /\ pendingMoves = {})
    /\ ~senderPaused
    /\ forwardOne
    /\ UNCHANGED <<named, apiVars, cfgVars, dirVars, otherQueues, pauseVars, runVars,
                   emlScanning, disk, partial, sess, scanVars>>

\* The setInterval callback of startSenderTimer(), when it calls forwardOne().
\* Unless the run allows overlap, the work started by the previous tick is
\* over when the next tick fires.
Tick ==
    /\ Armed
    /\ overlap \/ (FreeSlots = Slots /\ pendingMoves = {})
    /\ ~senderPaused
    /\ ~(emlScanning /\ Len(emlDirectQueue) > 0)
    /\ forwardOne
    /\ UNCHANGED <<named, apiVars, cfgVars, dirVars, otherQueues, pauseVars, runVars,
                   emlScanning, disk, partial, sess, scanVars>>

\* forward() resolved inside forwardOne(): the upstream server accepted the
\* message.  Then backup (moveToParkingBackup rejects at once when the
\* backup folder is unavailable) or delete.
RelaySendOk(i) ==
    /\ relay[i].ph = "send"
    /\ sent' = [sent EXCEPT ![relay[i].f] = Inc(@)]
    /\ relay' = [relay EXCEPT ![i] =
                    IF backupEnabled
                    THEN (IF emlParkingBackupDir THEN [@ EXCEPT !.ph = "backup"] ELSE IdleSlot)
                    ELSE [@ EXCEPT !.ph = "unlink"]]
    /\ UNCHANGED <<named, apiVars, cfgVars, dirVars, queueVars, pauseVars, runVars, statusReady,
                   emlScanning, fsVars, sess, scanVars, lastAttempt, anyFail>>

\* A catch that puts the name back at the head of the queue (unshift).
RelaySendFailUnshift(i) ==
    /\ relay[i].ph = "send"
    /\ pendingMoves' = moveToError(relay[i].f, "parking")
    /\ emlParkingQueue' = <<relay[i].f>> \o emlParkingQueue
    /\ relay' = [relay EXCEPT ![i] = IdleSlot]
    /\ anyFail' = TRUE
    /\ UNCHANGED <<named, apiVars, cfgVars, dirVars, otherQueues, pauseVars, runVars, statusReady,
                   emlScanning, disk, partial, sess, scanVars, sent, lastAttempt>>

\* A catch that also clears the interval of the ticker.
RelaySendFailDisarms(i) ==
    /\ relay[i].ph = "send"
    /\ pendingMoves' = moveToError(relay[i].f, "parking")
    /\ emlParkingQueue' = Append(emlParkingQueue, relay[i].f)
    /\ relay' = [relay EXCEPT ![i] = IdleSlot]
    /\ anyFail' = TRUE
    /\ timerHandle' = FALSE
    /\ UNCHANGED <<named, apiVars, cfgVars, dirVars, otherQueues, pauseVars, listenerRunning, lifecycle, bind,
                   transporter, parkedAtStop, leaked, statusReady,
                   emlScanning, disk, partial, sess, scanVars, sent, lastAttempt>>

\* A catch that deletes the file it could not forward.
RelaySendFailDeletes(i) ==
    /\ relay[i].ph = "send"
    /\ disk' = Unlinked(relay[i].f, "parking", TRUE)
    /\ emlParkingQueue' = Append(emlParkingQueue, relay[i].f)
    /\ relay' = [relay EXCEPT ![i] = IdleSlot]
    /\ anyFail' = TRUE
    /\ UNCHANGED <<named, apiVars, cfgVars, dirVars, otherQueues, pauseVars, runVars, statusReady,
                   emlScanning, partial, pendingMoves, sess, scanVars, sent, lastAttempt>>

\* forward() rejected inside forwardOne(): moveToError(), then the catch
\* of forwardOne() pushes the name back to the end of the queue.
RelaySendFail(i) ==
    /\ relay[i].ph = "send"
    /\ pendingMoves' = moveToError(relay[i].f, "parking")
    /\ emlParkingQueue' = Append(emlParkingQueue, relay[i].f)
    /\ relay' = [relay EXCEPT ![i] = IdleSlot]
    /\ anyFail' = TRUE
    /\ UNCHANGED <<named, apiVars, cfgVars, dirVars, otherQueues, pauseVars, runVars, statusReady,
                   emlScanning, disk, partial, sess, scanVars, sent, lastAttempt>>

\* A post-send step that queues the name again when the rename or the
\* unlink fails.
RelayPostDoneRequeue(i) ==
    /\ relay[i].ph \in {"backup", "unlink"}
    /\ \E ok \in FsOutcomes :
          /\ disk' = IF relay[i].ph = "backup"
                     THEN Renamed(relay[i].f, "parking", "parking_backup", ok)
                     ELSE Unlinked(relay[i].f, "parking", ok)
          /\ emlParkingQueue' = IF ok THEN emlParkingQueue
                                ELSE Append(emlParkingQueue, relay[i].f)
    /\ relay' = [relay EXCEPT ![i] = IdleSlot]
    /\ UNCHANGED <<named, apiVars, cfgVars, dirVars, otherQueues, pauseVars, runVars, statusReady,
                   emlScanning, partial, pendingMoves, sess, scanVars, histVars>>

\* The fs.rename of moveToParkingBackup() or the fs.unlink completed; a
\* failure is only reported, the name is not queued again.
RelayPostDone(i) ==
    /\ relay[i].ph \in {"backup", "unlink"}
    /\ \E ok \in FsOutcomes :
          disk' = IF relay[i].ph = "backup"
                  THEN Renamed(relay[i].f, "parking", "parking_backup", ok)
                  ELSE Unlinked(relay[i].f, "parking", ok)
    /\ relay' = [relay EXCEPT ![i] = IdleSlot]
    /\ UNCHANGED <<named, apiVars, cfgVars, dirVars, queueVars, pauseVars, runVars, statusReady,
                   emlScanning, partial, pendingMoves, sess, scanVars, histVars>>

\* ------------------------------------------------------- storage rescan
\* scanStorageAsync(), called by GET /api/remailer/query/storage: up to the
\* five findFiles() calls.
scanStorageAsync ==
    /\ lifecycle # "constructed"
    /\ checkExisting
    /\ IF ~isStorageReadyExisting
       THEN /\ emlParkingQueue' = <<>>
            /\ emlDirectQueue' = <<>>
            /\ emlErrorQueue' = <<>>
            /\ emlParkingBackupQueue' = <<>>
            /\ emlDirectBackupQueue' = <<>>
            /\ statusReady' = FALSE
            /\ UNCHANGED <<emlScanning, scanVars>>
       ELSE IF emlScanning
       THEN UNCHANGED <<queueVars, statusReady, emlScanning, scanVars>>
       ELSE /\ emlScanning' = TRUE
            /\ scanPending' = Dirs
            /\ scanDisk' = disk
            /\ UNCHANGED <<queueVars, statusReady, scanRes>>
    /\ UNCHANGED <<named, cfgVars, pauseVars, runVars, fsVars, sess, relay, histVars>>

\* One fs.readdir of findFiles() completed.  When it is the last of the
\* five, Promise.all resolves and the queues are replaced.
FindFilesDone(d) ==
    /\ d \in scanPending
    /\ \E r \in findFiles(d) :
          LET res == [scanRes EXCEPT ![d] = r] IN
          IF scanPending = {d}
          THEN /\ emlParkingQueue' = res["parking"]
               /\ emlDirectQueue' = res["direct"]
               /\ emlErrorQueue' = res["error"]
               /\ emlParkingBackupQueue' = res["parking_backup"]
               /\ emlDirectBackupQueue' = res["direct_backup"]
               /\ emlScanning' = FALSE
               /\ scanRes' = [x \in Dirs |-> <<>>]
               /\ scanDisk' = [x \in Dirs |-> {}]
          ELSE /\ scanRes' = res
               /\ UNCHANGED <<queueVars, emlScanning, scanDisk>>
    /\ scanPending' = scanPending \ {d}
    /\ UNCHANGED <<named, apiVars, cfgVars, dirVars, pauseVars, runVars, statusReady, fsVars,
                   sess, relay, histVars>>

\* One fs.readdir of findFiles() failed: Promise.all rejects, the then of
\* scanStorageAsync() does not run and nothing else handles the rejection
\* inside it; the results of the other calls are dropped.
FindFilesFail(d) ==
    /\ d \in scanPending
    /\ fsFaulty
    /\ scanPending' = {}
    /\ scanRes' = [x \in Dirs |-> <<>>]
    /\ scanDisk' = [x \in Dirs |-> {}]
    /\ UNCHANGED <<named, apiVars, cfgVars, dirVars, queueVars, pauseVars, runVars, statusReady,
                   emlScanning, fsVars, sess, relay, histVars>>

\* ------------------------------------------------------ control HTTP API
\* What a request carries: the api_key parameter, the endpoint, and the
\* suspend_sender / suspend_listener fields (a query string carries strings
\* only, a JSON body also booleans).
Keys == {"absent", "wrong", "right"}
Paths == {"control", "status", "storage"}
QueryVals == {"absent", "true", "false"}
BodyVals == {"absent", "true", "false", "jtrue", "jfalse"}

remailerVars == <<cfgVars, dirVars, queueVars, pauseVars, runVars, statusReady, emlScanning,
                  fsVars, sess, relay, scanVars, histVars>>

\* The answer sent to a request.
Answer(key, code) == reply' = [seq |-> 1 - reply.seq, valid |-> (key = "right"), code |-> code]

\* if (field): a present string is truthy, so is the boolean true.
Truthy(v) == v \in {"true", "false", "jtrue"}
\* field == "true" ? true : false
IsTrue(v) == v = "true"

\* The two bootstraps: main.ts calls startAdminAPI(), the other entry
\* points call startRemailerControlApi(); both after remailer.start().
startAdminAPI ==
    /\ lifecycle # "constructed"
    /\ api = "none"
    /\ api' = "admin"
    /\ UNCHANGED <<named, reply, summary, remailerVars>>

startRemailerControlApi ==
    /\ lifecycle # "constructed"
    /\ api = "none"
    /\ api' = "routes"
    /\ UNCHANGED <<named, reply, summary, remailerVars>>

\* checkApiKey(): next() only when api_key was submitted and is the key.
checkApiKey(key) == key = "right"

\* A request to the API of startAdminAPI(): checkApiKey runs first for every
\* path; only POST /api/remailer/control is routed.
AdminRequest(key, path, ss, sl) ==
    /\ api = "admin"
    /\ IF ~checkApiKey(key)
       THEN Answer(key, 401) /\ UNCHANGED pauseVars
       ELSE IF path = "control"
       THEN /\ senderPaused' = IF Truthy(ss) THEN IsTrue(ss) ELSE senderPaused
            /\ listenerPaused' = IF Truthy(sl) THEN IsTrue(sl) ELSE listenerPaused
            /\ Answer(key, 200)
       ELSE Answer(key, 404) /\ UNCHANGED pauseVars
    /\ UNCHANGED <<named, api, summary, cfgVars, dirVars, queueVars, runVars, statusReady, emlScanning,
                   fsVars, sess, relay, scanVars, histVars>>

\* POST /api/remailer/control of startRemailerControlApi(): the apiKey
\* parameter is not used, no middleware looks at api_key.
PostControl(key, ss, sl) ==
    /\ api = "routes"
    /\ senderPaused' = IF Truthy(ss) THEN IsTrue(ss) ELSE senderPaused
    /\ listenerPaused' = IF Truthy(sl) THEN IsTrue(sl) ELSE listenerPaused
    /\ Answer(key, IF Truthy(ss) \/ Truthy(sl) THEN 200 ELSE 400)
    /\ UNCHANGED <<named, api, summary, cfgVars, dirVars, queueVars, runVars, statusReady, emlScanning,
                   fsVars, sess, relay, scanVars, histVars>>

\* getSummary(): the timer section of the snapshot.
getSummary ==
    [taken |-> TRUE,
     enabled |-> IF timerIntervalMs <= 0 THEN TRUE ELSE FALSE,
     sec |-> timerIntervalMs \div 1000]

\* GET /api/remailer/query/status: answers getSummary(), which computes
\* storage.ready with isStorageReady(true).
GetStatus(key) ==
    /\ api = "routes"
    /\ Answer(key, 200)
    /\ summary' = getSummary
    /\ checkExisting
    /\ UNCHANGED <<named, api, cfgVars, queueVars, pauseVars, runVars, statusReady, emlScanning,
                   fsVars, sess, relay, scanVars, histVars>>

\* GET /api/remailer/query/storage: scanStorageAsync() is called; the code
\* is 400 when it rejects at once, else the 200 sent when the scan ends well.
GetStorage(key) ==
    /\ api = "routes"
    /\ scanStorageAsync
    /\ Answer(key, IF ~isStorageReadyExisting \/ emlScanning THEN 400 ELSE 200)
    /\ UNCHANGED <<api, summary>>

\* ------------------------------------------------------- specifications
Lifecycle == Start \/ Listening
Control == (\E b \in BOOLEAN : suspendSender(b)) \/ (\E b \in BOOLEAN : suspendListener(b))
Rescan == (scanStorageAsync /\ UNCHANGED apiVars) \/ (\E d \in Dirs : FindFilesDone(d))
Forwards == \E i \in Slots : RelaySendOk(i) \/ RelaySendFail(i) \/ RelayPostDone(i)
Moves == \E m \in pendingMoves : MoveToErrorDone(m)
IngressParking == \E s \in Sessions : OnDataParking(s) \/ SaveFinishParking(s)
IngressDirect ==
    \E s \in Sessions : \/ OnDataDirect(s) \/ SaveFinishDirect(s)
                        \/ DirectSendOk(s) \/ DirectSendFail(s) \/ DirectPostDone(s)
IngressFail == \E s \in Sessions : OnDataReject(s) \/ SaveError(s)

\* Every configuration and every environment.
Next ==
    \/ Lifecycle \/ Control \/ Rescan
    \/ IngressParking \/ IngressDirect \/ IngressFail
    \/ TickSkip \/ Tick \/ Forwards \/ Moves
Spec == Init /\ [][Next]_vars

\* Ingress in both modes under operator control, with the relay engine
\* keeping up with its ticker; no storage query.
InitAdmission == Init /\ ~overlap
NextAdmission ==
    \/ Lifecycle \/ Control
    \/ IngressParking \/ IngressDirect \/ IngressFail
    \/ TickSkip \/ Tick \/ Forwards \/ Moves
SpecAdmission == InitAdmission /\ [][NextAdmission]_vars

\* Direct mode (timer disabled): every message is forwarded by its own
\* onData invocation.
InitDirect == Init /\ timerIntervalMs = 0 /\ ~overlap
NextDirect == Lifecycle \/ Control \/ IngressDirect \/ IngressFail \/ Moves
SpecDirect == InitDirect /\ [][NextDirect]_vars

\* Parking mode with an upstream sender: ingress, ticker and forwards under
\* operator control; no storage query.
InitRelay == Init /\ timerIntervalMs > 0 /\ senderSmtpHost
NextRelay ==
    \/ Lifecycle \/ Control
    \/ IngressParking \/ IngressFail
    \/ TickSkip \/ Tick \/ Forwards \/ Moves
SpecRelay == InitRelay /\ [][NextRelay]_vars

\* Parking mode restarted over a spool left by an earlier run, with storage
\* queries and operator control; no producer connects.
InitRestart == Init /\ timerIntervalMs > 0 /\ senderSmtpHost /\ load = 0
NextRestart ==
    \/ Lifecycle \/ Control \/ Rescan
    \/ TickSkip \/ Tick \/ Forwards \/ Moves
SpecRestart == InitRestart /\ [][NextRestart]_vars

\* Parking mode with every folder available, a reliable file system and a
\* relay engine that keeps up with its ticker: one producer message, storage
\* queries and ticks in every interleaving.
InitRescan ==
    Init /\ timerIntervalMs > 0 /\ senderSmtpHost /\ isStorageReady
         /\ ~overlap /\ ~fsFaulty /\ load = 1
NextRescan == Lifecycle \/ Rescan \/ IngressParking \/ Tick \/ Forwards \/ Moves
SpecRescan == InitRescan /\ [][NextRescan]_vars

\* ------------------------------------------------------------ properties
Range(q) == { q[k] : k \in 1..Len(q) }
Spool == disk["parking"] \cup disk["direct"] \cup disk["error"]
InFlight == { i \in Slots : relay[i].ph = "send" }
Holding(f) == { i \in Slots : relay[i].ph # "idle" /\ relay[i].f = f }

\* C1: in parking mode at most one upstream forward started by the relay
\* ticker is in flight at any instant.
C1_OneForwardInFlight == timerIntervalMs > 0 => Cardinality(InFlight) <= 1

\* C1, the case: a forward started by the ticker is in flight while the
\* ticker is armed and the sender is not paused.
C1_Witness == timerHandle /\ ~senderPaused /\ InFlight # {}

\* C2: a parking file whose forward has succeeded, and whose post-send step
\* (backup or delete) is over, is in none of the parking, direct and error
\* directories.
C2_ForwardedLeavesSpool ==
    \A f \in Files : (sent[f] > 0 /\ Holding(f) = {}) => f \notin Spool

\* C2, the case: a parking file was forwarded and its post-send step is over.
C2_Witness == \E f \in Files : sent[f] > 0 /\ Holding(f) = {} /\ timerIntervalMs > 0

\* C3: no filename is successfully submitted upstream more than once.
C3_NoDoubleSubmit == \A f \in Files : sent[f] <= 1

\* C3, the case: a file was submitted, a storage query ran afterwards and
\* the file is queued again.
C3_Witness == \E f \in Files : sent[f] = 1 /\ f \in Range(emlParkingQueue)

\* C4: the step that answers a message positively leaves, in parking mode,
\* its spool file completely written and present in the parking directory,
\* and follows, in direct mode, a successful upstream forward.
C4_AckAfterDurable ==
    [][\A s \in Sessions :
          (sess[s].ack = "none" /\ sess'[s].ack = "ok") =>
              IF sess'[s].path = "parking"
              THEN NameOf(s) \in disk'["parking"] /\ NameOf(s) \notin partial'
              ELSE sess'[s].fwd = "ok" /\ sent'[NameOf(s)] > 0]_vars

\* C4, the case: a message stored in parking mode was answered positively.
C4_Witness == \E s \in Sessions : sess[s].path = "parking" /\ sess[s].ack = "ok"

\* C5: a message that arrived while listenerPaused was true has no file in
\* the parking or direct directory and no entry in the parking queue, in
\* either mode and whatever pause/resume commands were given.
C5_PausedCreatesNothing ==
    \A s \in Sessions :
        sess[s].lp => /\ NameOf(s) \notin disk["parking"] \cup disk["direct"]
                      /\ NameOf(s) \notin Range(emlParkingQueue)
                      /\ NameOf(s) \notin partial

\* C5, the case: a message arrived while the listener was paused (the
\* system being ready) and onData has returned.
C5_Witness ==
    \E s \in Sessions : sess[s].lp /\ sess[s].pc = "done" /\ sess[s].path = "paused"

\* C6: once onData is over for a message, its callback was invoked exactly
\* once; a rejected message was answered with an error, fired onReject once
\* and is in no queue; an accepted message fired no onReject.
C6_AnsweredOnce ==
    \A s \in Sessions :
        sess[s].pc = "done" =>
            /\ sess[s].cb = 1
            /\ sess[s].ack = "err" =>
                  /\ sess[s].rej = 1
                  /\ NameOf(s) \notin Range(emlParkingQueue) \cup Range(emlDirectQueue)
            /\ sess[s].ack = "ok" => sess[s].rej = 0

\* C6, the case: onData is over for a message.
C6_Witness == \E s \in Sessions : sess[s].pc = "done"

\* C7: in direct mode, a message saved while the sender is paused is in the
\* direct directory, was not forwarded, and was answered positively.
C7_PausedSenderAcked ==
    \A s \in Sessions :
        (sess[s].pc = "done" /\ sess[s].fwd = "skipped") =>
            /\ NameOf(s) \in disk["direct"]
            /\ sent[NameOf(s)] = 0
            /\ sess[s].ack = "ok"

\* C7, the case: in direct mode a message was saved while the sender was
\* paused and onData has returned.
C7_Witness ==
    \E s \in Sessions : sess[s].pc = "done" /\ sess[s].fwd = "skipped" /\ timerIntervalMs = 0

\* Direct mode, sender configured: the messages whose onData is over and
\* whose move to the error folder, if any, has completed.
Settled(s) ==
    /\ senderSmtpHost
    /\ sess[s].path = "direct"
    /\ sess[s].pc = "done"
    /\ <<NameOf(s), "direct">> \notin pendingMoves

FailStep(i) ==
    /\ relay[i].ph = "send"
    /\ relay'[i] = IdleSlot
    /\ Len(emlParkingQueue') = Len(emlParkingQueue) + 1

C10_AttemptsInOrder ==
    [][(lastAttempt # 0 /\ lastAttempt' # lastAttempt /\ ~anyFail') =>
          lastAttempt' >= lastAttempt]_vars

\* C10, the case: no forward has failed, a file was attempted and another
\* file is queued behind it.
C10_Witness ==
    /\ ~anyFail
    /\ lastAttempt # 0
    /\ emlParkingQueue # <<>>

\* A queue in ascending filename order.
Sorted(q) == \A i, j \in 1..Len(q) : i < j => q[i] < q[j]

\* The step in which a scan replaces the queues: the start-up scan inside
\* start(), or the last readdir of a storage query.
ScanEnds ==
    \/ lifecycle = "constructed" /\ lifecycle' = "binding"
    \/ emlScanning /\ ~emlScanning'

\* C11: after every rescan each of the five queues is in ascending
\* filename order.
C11_QueuesSorted ==
    [][ScanEnds => /\ Sorted(emlParkingQueue')
                   /\ Sorted(emlDirectQueue')
                   /\ Sorted(emlErrorQueue')
                   /\ Sorted(emlParkingBackupQueue')
                   /\ Sorted(emlDirectBackupQueue')]_vars

\* C11, the case: no scan is running and the parking queue holds two files.
C11_Witness == ~emlScanning /\ lifecycle = "running" /\ Len(emlParkingQueue) >= 2

\* The snapshot a storage query answers with: the five queues it has just
\* assigned.
Snapshot(d) ==
    CASE d = "parking" -> emlParkingQueue'
      [] d = "direct" -> emlDirectQueue'
      [] d = "error" -> emlErrorQueue'
      [] d = "parking_backup" -> emlParkingBackupQueue'
      [] d = "direct_backup" -> emlDirectBackupQueue'

\* C12: the snapshot of a successful storage query holds, for each queue,
\* exactly the files that were in the directory when the query was made,
\* and no filename in two queues.
C12_SnapshotExact ==
    [][(emlScanning /\ ~emlScanning') =>
          /\ \A d \in Dirs : Range(Snapshot(d)) = scanDisk[d]
          /\ \A d, e \in Dirs : d # e => Range(Snapshot(d)) \cap Range(Snapshot(e)) = {}]_vars

\* C12, the case: a storage query is running and a directory has changed
\* since it was made.
C12_Witness == emlScanning /\ scanPending # {} /\ disk # scanDisk

\* The files at rest in the parking directory: completely written, not
\* held by a forward in progress and not being renamed to error.
AtRest ==
    { f \in disk["parking"] \ partial :
          Holding(f) = {} /\ <<f, "parking">> \notin pendingMoves }

\* C13: while senderPaused is true no step starts a forward or takes a
\* name from the parking queue, and the files at rest in parking stay
\* there: the ticks change nothing.
C13_PausedTicksIdle ==
    [][senderPaused =>
          /\ \A i \in Slots : relay'[i].ph = "send" => relay[i] = relay'[i]
          /\ lastAttempt' = lastAttempt
          /\ \/ emlParkingQueue' = emlParkingQueue
             \/ \E f \in Files : emlParkingQueue' = Append(emlParkingQueue, f)
          /\ AtRest \subseteq disk'["parking"]]_vars

\* C13, the case: the ticker is armed, the sender is paused, files are
\* queued in parking and no forward is in progress.
C13_Witness ==
    /\ timerHandle /\ senderPaused
    /\ emlParkingQueue # <<>>
    /\ Range(emlParkingQueue) \subseteq AtRest

\* Parking mode restarted over a spool left by an earlier run, with an
\* upstream server that accepts every message; the ticker fires at every
\* interval and the upstream server answers.
Accepts == \E i \in Slots : RelaySendOk(i) \/ RelayPostDone(i)
InitDrain == Init /\ timerIntervalMs > 0 /\ senderSmtpHost /\ load = 0
NextDrain == Lifecycle \/ Control \/ TickSkip \/ Tick \/ Accepts
SpecDrain ==
    InitDrain /\ [][NextDrain]_vars /\ WF_vars(Tick) /\ WF_vars(Accepts)

Started == { i \in Slots : relay[i].ph # "send" /\ relay'[i].ph = "send" }

\* What a step does to the parking queue and the relay slots, whatever the
\* queue holds: it starts at most one forward, a forward it starts is that
\* of the head, which it removes, and it removes nothing but the head; with
\* an empty queue it starts no forward and attempts nothing.
OnePerTick ==
    /\ Cardinality(Started) <= 1
    /\ \A i \in Started :
          /\ emlParkingQueue # <<>>
          /\ relay'[i].f = Head(emlParkingQueue)
          /\ emlParkingQueue' = Tail(emlParkingQueue)
    /\ Len(emlParkingQueue') < Len(emlParkingQueue) =>
          (emlParkingQueue' = Tail(emlParkingQueue) /\ Started # {})
    /\ emlParkingQueue = <<>> =>
          (Started = {} /\ lastAttempt' = lastAttempt)

C16_SuccessNotRequeued ==
    [][\A i \in Slots : LET f == relay[i].f IN
          /\ (relay[i].ph = "send" /\ relay'[i].ph # "send" /\ emlParkingQueue' = emlParkingQueue) =>
                /\ relay'[i].ph = IF ~backupEnabled THEN "unlink"
                                  ELSE IF emlParkingBackupDir THEN "backup" ELSE "idle"
                /\ disk' = disk
          /\ (relay[i].ph \in {"backup", "unlink"} /\ relay'[i].ph # relay[i].ph) =>
                /\ emlParkingQueue' = emlParkingQueue
                /\ relay'[i] = IdleSlot
                /\ (~fsFaulty /\ f \in disk["parking"]) =>
                      /\ f \notin disk'["parking"]
                      /\ f \in disk'["parking_backup"] <=> backupEnabled
                /\ disk' # disk => f \notin disk'["parking"]]_vars

\* C16, the case: with backup enabled a file was forwarded and its backup
\* step is over: it is in parking_backup and not queued.
C16_Witness ==
    \E f \in Files :
        /\ sent[f] > 0 /\ Holding(f) = {}
        /\ f \in disk["parking_backup"]
        /\ f \notin Range(emlParkingQueue)

\* The codes of the "error" event of the listener after a failed listen().
BindErrors == {"EADDRINUSE", "EACCES"}

\* init() registers this.onListenerError without binding it: the emitter
\* calls it with the SMTPServer as this, which has no smtpServer field.
ThisHasSmtpServer == FALSE

\* onListenerError(): listen() failed, its callback will not run.  On
\* EADDRINUSE a timeout of one second is set; nothing else is done.
onListenerError(code) ==
    /\ lifecycle = "binding"
    /\ lifecycle' = "unbound"
    /\ bind' = [bind EXCEPT !.error = code, !.retry = (code = "EADDRINUSE")]
    /\ UNCHANGED <<named, apiVars, cfgVars, dirVars, queueVars, pauseVars, listenerRunning, timerHandle,
                   transporter, parkedAtStop, leaked, statusReady, emlScanning, fsVars, sess, relay,
                   scanVars, histVars>>

\* The timeout set by onListenerError(): if (this.smtpServer) close() and
\* listen() again, without arguments.
RetryTimeout ==
    /\ bind.retry
    /\ IF ThisHasSmtpServer
       THEN /\ bind' = [bind EXCEPT !.retry = FALSE, !.calls = @ + 1]
            /\ lifecycle' = "binding"
       ELSE /\ bind' = [bind EXCEPT !.retry = FALSE]
            /\ UNCHANGED lifecycle
    /\ UNCHANGED <<named, apiVars, cfgVars, dirVars, queueVars, pauseVars, listenerRunning, timerHandle,
                   transporter, parkedAtStop, leaked, statusReady, emlScanning, fsVars, sess, relay,
                   scanVars, histVars>>

\* stop(): closes the listener when it is running and closes the upstream
\* sender, whose transporter becomes undefined.  Sessions in progress go on;
\* the ticker is not touched.  The files at rest in parking are recorded.
Stop ==
    /\ lifecycle # "constructed"
    /\ lifecycle' = IF listenerRunning THEN "closed" ELSE lifecycle
    /\ transporter' = FALSE
    /\ parkedAtStop' = AtRest
    /\ UNCHANGED <<named, apiVars, cfgVars, dirVars, queueVars, pauseVars, listenerRunning, timerHandle, leaked, bind,
                   statusReady, emlScanning, fsVars, sess, relay, scanVars, histVars>>

\* Parking mode restarted over a spool left by an earlier run and then
\* stopped, under operator control; no producer connects.
InitStop == Init /\ timerIntervalMs > 0 /\ senderSmtpHost /\ load = 0
NextStop == Lifecycle \/ Stop \/ Control \/ TickSkip \/ Tick \/ Forwards \/ Moves
SpecStop == InitStop /\ [][NextStop]_vars

\* stop() has been called on a system with an upstream sender.
Stopped == senderSmtpHost /\ ~transporter

\* C17: once stop() has been called the ticker is cleared: no step takes a
\* filename from the parking queue, attempts a forward or starts one.
C17_StopClearsTicker ==
    [][Stopped => /\ ~timerHandle
                  /\ lastAttempt' = lastAttempt
                  /\ Started = {}]_vars

\* C17, the case: stop() was called on a started system whose ticker was
\* armed, with a file queued in parking.
C17_Witness == Stopped /\ lifecycle = "closed" /\ emlParkingQueue # <<>>

\* C18: every file that was in the parking directory and not in flight when
\* stop() was called is still in the parking directory.
C18_StopKeepsParking == Stopped => parkedAtStop \subseteq disk["parking"]

\* C18, the case: stop() was called on a started system while a file was
\* at rest in the parking directory, and the ticker has fired since.
C18_Witness == Stopped /\ lifecycle = "closed" /\ parkedAtStop # {} /\ lastAttempt \in parkedAtStop

\* A failure inside a tick: the upstream forward of a slot fails (upstream
\* error or malformed message), forwardEml() rejects at once (the file
\* vanished), a move to error is issued or completes (well or not), or
\* forwardOne() finds no parking folder.
TickFailure ==
    \/ \E i \in Slots : FailStep(i)
    \/ pendingMoves' # pendingMoves
    \/ statusReady /\ ~statusReady'
    \/ /\ emlParkingQueue # <<>>
       /\ Head(emlParkingQueue) \notin disk["parking"]
       /\ lastAttempt' = Head(emlParkingQueue)
       /\ relay' = relay
       /\ anyFail'

\* C19: a failure inside a tick never terminates the ticker: when the
\* interval is armed it is still armed after the failing step, so the next
\* ticks fire.
C19_FailureKeepsTicker == [][timerHandle /\ TickFailure => timerHandle']_vars

\* C19, the case: a forward failed, the ticker is still armed and a later
\* tick has dispatched a forward, now in flight.
C19_Witness == ~overlap /\ anyFail /\ timerHandle /\ InFlight # {}

\* The control HTTP API of either bootstrap, over an idle relay.
Bootstrap == startAdminAPI \/ startRemailerControlApi
AdminApi ==
    \E key \in Keys, path \in Paths, ss \in QueryVals, sl \in QueryVals :
        AdminRequest(key, path, ss, sl)
RoutesApi ==
    \/ \E key \in Keys, ss \in BodyVals, sl \in BodyVals : PostControl(key, ss, sl)
    \/ \E key \in Keys : GetStatus(key)
    \/ \E key \in Keys : GetStorage(key)
ScanReturns == \E d \in Dirs : FindFilesDone(d)
InitApi == Init /\ load = 0 /\ ~overlap /\ ~fsFaulty
NextApi == Lifecycle \/ Bootstrap \/ AdminApi \/ RoutesApi \/ ScanReturns
SpecApi == InitApi /\ [][NextApi]_vars

\* A step in which a request without a valid api_key is answered.
Unauthorized == reply'.seq # reply.seq /\ ~reply'.valid

\* C20: a request to the control API without a valid api_key is answered
\* 401 and has no effect: the pause flags are unchanged and no rescan is
\* triggered.
C20_UnauthorizedNoEffect ==
    [][Unauthorized => /\ reply'.code = 401
                       /\ UNCHANGED <<pauseVars, queueVars, statusReady,
                                      emlScanning, scanVars>>]_vars

\* C20, the case: the control API listens and has answered a request that
\* carried no valid api_key.
C20_Witness == api # "none" /\ ~reply.valid /\ reply.code # 0

\* What a control request asks for a flag: whether the field is present, and
\* the boolean it carries as a string or as a JSON boolean.
Present(v) == v # "absent"
Asks(v) == v \in {"true", "jtrue"}

\* C21: POST /api/remailer/control sets senderPaused to the value of
\* suspend_sender and listenerPaused to the value of suspend_listener, as a
\* string or as a JSON boolean, and answers 200; with neither field it
\* changes no flag and answers 400.
C21_ControlSetsFlags ==
    [][\A key \in Keys, ss \in BodyVals, sl \in BodyVals :
          PostControl(key, ss, sl) =>
              /\ Present(ss) => senderPaused' = Asks(ss)
              /\ Present(sl) => listenerPaused' = Asks(sl)
              /\ Present(ss) \/ Present(sl) => reply'.code = 200
              /\ ~Present(ss) /\ ~Present(sl) =>
                    reply'.code = 400 /\ UNCHANGED pauseVars]_vars

\* C21, the case: a control request was answered 200 and the sender is
\* paused.
C21_Witness == api = "routes" /\ reply.code = 200 /\ senderPaused

\* C22: in every status snapshot returned by getSummary, timer.enabled is
\* true exactly when timerIntervalMs > 0, and timer.sec is timerIntervalMs
\* divided by 1000.
C22_TimerEnabled ==
    summary.taken => /\ summary.enabled <=> timerIntervalMs > 0
                     /\ summary.sec * 1000 = timerIntervalMs

\* C22, the case: GET /query/status has returned a snapshot of a system
\* whose timer is set.
C22_Witness == summary.taken /\ timerIntervalMs > 0 /\ reply.code = 200

\* Start-up on a port that may be taken or forbidden.
BindFails == \E code \in BindErrors : onListenerError(code)
InitBind == Init /\ load = 0 /\ ~overlap /\ ~fsFaulty
NextBind == Lifecycle \/ BindFails \/ RetryTimeout \/ Control
SpecBind == InitBind /\ [][NextBind]_vars

\* C23: after a bind that failed with EADDRINUSE and the wait, the bind has
\* been retried exactly once; when the retry has failed too the system is
\* not ready; a bind that failed with another error is not retried.
C23_BindRetriedOnce ==
    /\ bind.error = "EADDRINUSE" /\ ~bind.retry => bind.calls = 2
    /\ bind.calls >= 2 /\ lifecycle = "unbound" => bind.calls = 2 /\ ~statusReady
    /\ bind.error \notin {"none", "EADDRINUSE"} => bind.calls = 1 /\ ~bind.retry

\* C23, the case: the bind failed with EADDRINUSE and the timeout set by the
\* error handler has fired.
C23_Witness == bind.error = "EADDRINUSE" /\ ~bind.retry /\ lifecycle = "unbound"

\* C24: after init() status.ready is false exactly when neither the sender
\* nor the storage is ready, and start() on a system that is not ready
\* scans nothing, binds nothing and arms no ticker.
C24_NotReadyNoStart ==
    /\ [](lifecycle = "constructed" =>
             (~statusReady <=> ~isSenderReady /\ ~isStorageReady))
    /\ [][lifecycle = "constructed" /\ ~statusReady =>
             UNCHANGED <<queueVars, lifecycle, bind, timerHandle, listenerRunning>>]_vars

\* C24, the case: init() left a system with neither sender nor storage,
\* marked not ready, on which start() is called.
C24_Witness ==
    lifecycle = "constructed" /\ ~statusReady /\ ~isSenderReady /\ ~isStorageReady /\ ENABLED Start

\* ------------------------------------------------------------ file names
\* Strings are sequences of characters.  The timestamp is the digits of
\* toISOString(), of fixed length; a session id is made by the SMTP library
\* of letters and digits; an address may hold any character.
Digits == {"0", "1"}
IdChars == {"a", "b"}
AddrChars == {"a", "_", "@"}
Stamps == [1..StampLen -> Digits]
SessionIds == UNION { [1..k -> IdChars] : k \in 1..MaxIdLen }
Addresses == UNION { [1..k -> AddrChars] : k \in 1..MaxAddrLen }
\* envelope.mailFrom: an address, or false (here the empty list)
MailFroms == {<<>>} \cup { <<a>> : a \in Addresses }
RcptTos == UNION { [1..k -> Addresses] : k \in 0..MaxRcpt }
Envelopes == [stamp : Stamps, id : SessionIds, mailFrom : MailFroms, rcptTo : RcptTos]

\* address.replace(/[@.]/g, "-")
Dashed(s) == [i \in 1..Len(s) |-> IF s[i] \in {"@", "."} THEN "-" ELSE s[i]]

\* toAddr.map(...).join("-")
RECURSIVE JoinDashed(_)
JoinDashed(l) ==
    IF l = <<>> THEN <<>>
    ELSE IF Len(l) = 1 THEN Dashed(l[1])
    ELSE Dashed(l[1]) \o <<"-">> \o JoinDashed(Tail(l))

\* A file name computed without the session id.
fileNameNoId(e) ==
    e.stamp \o <<"_">>
        \o (IF e.mailFrom = <<>> THEN <<"b", "h", "o">> ELSE Dashed(e.mailFrom[1]))
        \o <<"_">> \o JoinDashed(e.rcptTo) \o <<".", "e", "m", "l">>

\* The file name saveEmailToDisk() computes.
fileName(e) ==
    e.stamp \o <<"_">> \o e.id \o <<"_">>
        \o (IF e.mailFrom = <<>> THEN <<"b", "h", "o">> ELSE Dashed(e.mailFrom[1]))
        \o <<"_">> \o JoinDashed(e.rcptTo) \o <<".", "e", "m", "l">>

\* Two messages are received and their file names computed.
SaveNames ==
    /\ named = <<>>
    /\ \E e1, e2 \in Envelopes :
          named' = << [id |-> e1.id, name |-> fileName(e1)],
                      [id |-> e2.id, name |-> fileName(e2)] >>
    /\ UNCHANGED <<apiVars, remailerVars>>

InitNames ==
    /\ Init /\ load = 0 /\ ~overlap /\ ~fsFaulty /\ isStorageReady
    /\ timerIntervalMs = 0 /\ backupEnabled /\ senderSmtpHost /\ disk["parking"] = {}
SpecNames == InitNames /\ [][SaveNames]_vars

\* C25: two messages whose session ids differ get different file names,
\* whatever their timestamps, senders and recipients.
C25_NamesDiffer ==
    named # <<>> => (named[1].id # named[2].id => named[1].name # named[2].name)

\* C25, the case: two messages have been named whose session ids differ in
\* length and whose file names have the same length.
C25_Witness ==
    /\ named # <<>>
    /\ named[1].id # named[2].id
    /\ Len(named[1].id) # Len(named[2].id)
    /\ Len(named[1].name) = Len(named[2].name)

\* The directories that hold file f.
Where(f) == { d \in Dirs : f \in disk[d] }

Archives == {"error", "parking_backup", "direct_backup"}

InitSkip ==
    /\ \E left \in SUBSET (1..MaxPre) : InitFrom(left)
    /\ timerIntervalMs > 0 /\ senderSmtpHost /\ isStorageReady
    /\ ~overlap /\ ~fsFaulty /\ load = 1
NextSkip == Lifecycle \/ Rescan \/ IngressParking \/ TickSkip \/ Tick \/ Forwards \/ Moves
SpecSkip == InitSkip /\ [][NextSkip]_vars

\* The ticker skips: a rescan is in progress and the direct queue is not empty.
Reconciling == emlScanning /\ Len(emlDirectQueue) > 0

\* A tick that takes the head of the parking queue.
TickPops == Tick /\ lastAttempt' = Head(emlParkingQueue)

\* C28: while a rescan is in progress and the direct queue is not empty no
\* step takes a name from the parking queue or starts a forward; otherwise
\* a tick of an armed, un-paused ticker whose previous work is over takes
\* the head of the parking queue.
C28_TickSkipsDuringScan ==
    /\ [][Reconciling => lastAttempt' = lastAttempt /\ Started = {}]_vars
    /\ [](/\ timerHandle /\ ~senderPaused /\ ~Reconciling
          /\ emlParkingQueue # <<>> /\ FreeSlots = Slots /\ pendingMoves = {}
          => ENABLED TickPops)

\* C28, the case: a rescan is in progress, the direct queue is not empty
\* and a file waits in the parking queue of an armed, un-paused ticker.
C28_Witness == Reconciling /\ timerHandle /\ ~senderPaused /\ emlParkingQueue # <<>>

\* Parking mode with storage queries on a file system whose operations
\* may fail.
ScanFails == \E d \in Dirs : FindFilesFail(d)
InitScanFail ==
    /\ \E left \in SUBSET (1..MaxPre) : InitFrom(left)
    /\ timerIntervalMs > 0 /\ senderSmtpHost /\ isStorageReady
    /\ ~overlap /\ fsFaulty /\ load = 0
NextScanFail == Lifecycle \/ Rescan \/ ScanFails \/ TickSkip \/ Tick \/ Forwards \/ Moves
SpecScanFail == InitScanFail /\ [][NextScanFail]_vars

\* C29: the scanning flag is true only while a rescan is in progress: when
\* no directory enumeration is pending, whether the last rescan succeeded
\* or failed, scanning is false.
C29_ScanningOnlyDuringScan == scanPending = {} => ~emlScanning

\* C29, the case: a storage query made on a started system has failed on
\* a directory enumeration and a tick has fired since.
C29_Witness == lifecycle = "running" /\ scanPending = {} /\ emlScanning /\ lastAttempt # 0

\* The ingress sessions whose forward() on the direct path is pending.
DirectInFlight == { s \in Sessions : sess[s].pc = "forwarding" }

\* C30: at most one forward is active on the upstream sender at any
\* instant, counting those started by the ticker and those started by the
\* direct path of ingress sessions.
C30_OneForwardOverall == Cardinality(InFlight) + Cardinality(DirectInFlight) <= 1

\* C30, the case: the direct path of a session is forwarding while another
\* session has delivered its message.
C30_Witness ==
    \E s, u \in Sessions : s # u /\ sess[s].pc = "forwarding" /\ sess[u].pc # "idle"

\* start() called when listenerRunning is true: "already running", the
\* listener pause is lifted and nothing else is done.
StartAgain ==
    /\ listenerRunning
    /\ listenerPaused' = FALSE
    /\ UNCHANGED <<named, apiVars, cfgVars, dirVars, queueVars, senderPaused, runVars, statusReady,
                   emlScanning, fsVars, sess, relay, scanVars, histVars>>

\* Parking mode, stopped and started again under operator control.
NextStopStart == NextStop \/ StartAgain
SpecStopStart == InitStop /\ [][NextStopStart]_vars

\* C31: listenerRunning is true exactly while the ingress server accepts,
\* and a start() issued after stop() binds the listener again.
C31_RunningWhileAccepting ==
    /\ [](listenerRunning <=> lifecycle = "running")
    /\ [][lifecycle = "closed" /\ StartAgain => lifecycle' = "binding"]_vars

\* C31, the case: the listener was bound, stop() was called and then
\* start(), which found the listener paused.
C31_Witness == lifecycle = "closed" /\ listenerRunning /\ ~listenerPaused /\ senderPaused

\* Parking mode over a spool of which one folder other than parking could
\* not be created, with the control API of routes.ts and producers; the
\* file system answers every write.
InitDegraded ==
    /\ Init /\ timerIntervalMs > 0 /\ senderSmtpHost
    /\ emlParkingDir /\ ~isStorageReady /\ ~overlap /\ ~fsFaulty
NextDegraded ==
    \/ Lifecycle \/ startRemailerControlApi
    \/ (\E key \in Keys : GetStatus(key)) \/ (\E key \in Keys : GetStorage(key))
    \/ IngressParking \/ (\E s \in Sessions : OnDataReject(s))
SpecDegraded == InitDegraded /\ [][NextDegraded]_vars

\* The listener is bound and takes messages for the parking folder.
Serving == lifecycle = "running" /\ listenerRunning /\ emlParkingDir /\ ~listenerPaused

\* C32: a missing error or backup folder degrades only its own queue: on a
\* started parking-mode system whose parking folder is available and whose
\* listener is not paused, an incoming message is admitted to parking and
\* acknowledged, before and after storage and status queries.
C32_OnlyThatQueueDegraded ==
    /\ [](Serving => Admission = "parking")
    /\ [][\A s \in Sessions : SaveFinishParking(s) => sess'[s].ack = "ok"]_vars

\* C32, the case: after a storage query was answered on a serving system
\* without its error or backup folder, a message has been through onData.
C32_Witness ==
    /\ Serving /\ ~isStorageReady /\ reply.code = 400
    /\ \E s \in Sessions : sess[s].pc = "done" /\ sess[s].path = "notready"

\* C33: a rescan that runs beside ingress drops no acknowledged message
\* from the parking queue: when the rescan completes, every file at rest in
\* the parking folder is in the parking queue.
C33_RescanKeepsAcknowledged ==
    [][(emlScanning /\ ~emlScanning') => AtRest' \subseteq Range(emlParkingQueue')]_vars

\* C33, the case: a storage query is running, its listing of the parking
\* folder is in, and a message has since been stored and acknowledged.
C33_Witness ==
    /\ emlScanning /\ scanPending # {} /\ "parking" \notin scanPending
    /\ \E s \in Sessions : /\ sess[s].ack = "ok"
                           /\ NameOf(s) \in AtRest
                           /\ NameOf(s) \notin Range(scanRes["parking"])

\* The files whose upstream forward is in flight.
Forwarding == { relay[i].f : i \in InFlight }

\* C34: in every interleaving of ticks, forward completions, ingress
\* enqueues and rescans the parking queue holds no filename twice and no
\* filename whose forward is in flight.
C34_QueueNoRepeatNoInFlight ==
    /\ \A i, j \in 1..Len(emlParkingQueue) : i # j => emlParkingQueue[i] # emlParkingQueue[j]
    /\ Range(emlParkingQueue) \cap Forwarding = {}

\* C34, the case: a rescan has completed while a forward taken from the
\* parking queue was in flight.
C34_Witness ==
    /\ lifecycle = "running" /\ ~emlScanning /\ scanPending = {}
    /\ Forwarding # {} /\ Forwarding \subseteq Range(emlParkingQueue)

\* Parking mode restarted over a spool left by an earlier run, with an
\* upstream server that may refuse a message and no storage query; the
\* ticker fires at every interval, every forward is answered and every
\* fs.rename calls back.
InitRetry == Init /\ timerIntervalMs > 0 /\ senderSmtpHost /\ load = 0
NextRetry == Lifecycle \/ Tick \/ Forwards \/ Moves
SpecRetry ==
    InitRetry /\ [][NextRetry]_vars
    /\ WF_vars(Lifecycle) /\ WF_vars(Tick) /\ WF_vars(Forwards) /\ WF_vars(Moves)

\* C35: a parking filename whose forward failed and whose file was moved to
\* the error folder is not retried for ever: without rescans it leaves the
\* parking queue for good after finitely many ticks.
C35_FailedLeavesQueue ==
    \A f \in Files :
        (anyFail /\ f \in disk["error"] /\ f \in Range(emlParkingQueue))
            ~> [](f \notin Range(emlParkingQueue))

\* C35, the case: a forward has failed, its file is in the error folder and
\* its name is in the parking queue of an armed, un-paused ticker.
C35_Witness ==
    /\ timerHandle /\ ~senderPaused /\ anyFail /\ pendingMoves = {}
    /\ \E f \in Files : f \in disk["error"] /\ f \in Range(emlParkingQueue)

\* ------------------------------------------------------- ticker control
\* startSenderTimer() called by the embedding program.
StartSenderTimer ==
    /\ timerHandle' = startSenderTimer
    /\ leaked' = Orphaned
    /\ leaked' <= MaxOrphans
    /\ UNCHANGED <<named, apiVars, cfgVars, dirVars, queueVars, pauseVars, listenerRunning,
                   lifecycle, bind, transporter, parkedAtStop, statusReady, emlScanning,
                   fsVars, sess, relay, scanVars, histVars>>

\* stopSenderTimer(): clearInterval() of the interval timerHandle holds.
stopSenderTimer ==
    /\ timerHandle' = FALSE
    /\ UNCHANGED <<named, apiVars, cfgVars, dirVars, queueVars, pauseVars, listenerRunning,
                   leaked, lifecycle, bind, transporter, parkedAtStop, statusReady, emlScanning,
                   fsVars, sess, relay, scanVars, histVars>>

\* setSenderInterval(seconds): a positive value is stored for the next
\* startSenderTimer(); any other stops the ticker and disables the timer.
setSenderInterval(seconds) ==
    /\ IF seconds > 0
       THEN timerIntervalMs' = seconds * 1000 /\ UNCHANGED timerHandle
       ELSE timerIntervalMs' = 0 /\ timerHandle' = FALSE
    /\ UNCHANGED <<named, apiVars, backupEnabled, senderSmtpHost, load, fsFaulty, overlap,
                   dirVars, queueVars, pauseVars, listenerRunning, leaked, lifecycle, bind,
                   transporter, parkedAtStop, statusReady, emlScanning, fsVars, sess, relay,
                   scanVars, histVars>>

\* Parking mode whose embedding program drives the ticker itself.
NextTimer ==
    \/ Lifecycle \/ StartAgain \/ Stop
    \/ StartSenderTimer \/ stopSenderTimer
    \/ (\E seconds \in {0, TimerIntervalSec} : setSenderInterval(seconds))
    \/ (\E b \in BOOLEAN : suspendSender(b))
    \/ TickSkip \/ Tick \/ Forwards \/ Moves
SpecTimer == InitStop /\ [][NextTimer]_vars

\* C36: whatever the sequence of start(), startSenderTimer(),
\* stopSenderTimer(), setSenderInterval() and stop(), at most one relay
\* ticker is armed, and stopSenderTimer() leaves no ticker running.
C36_OneTicker ==
    /\ [](timerHandle => leaked = 0)
    /\ [](leaked <= 1)
    /\ [][stopSenderTimer => ~timerHandle' /\ leaked' = 0]_vars

\* C36, the case: startSenderTimer() was called on a bound system whose
\* ticker was armed.
C36_Witness == lifecycle = "running" /\ timerHandle /\ leaked > 0

\* suspendSender() called by the embedding program between New() and
\* start().
SuspendSenderEarly(b) ==
    /\ lifecycle = "constructed"
    /\ senderPaused' = b
    /\ UNCHANGED <<named, apiVars, cfgVars, dirVars, queueVars, listenerPaused, runVars, statusReady,
                   emlScanning, fsVars, sess, relay, scanVars, histVars>>

\* Parking mode whose sender may be suspended before start() is called.
NextEarly ==
    \/ Lifecycle \/ Control \/ (\E b \in BOOLEAN : SuspendSenderEarly(b))
    \/ TickSkip \/ Tick \/ Forwards \/ Moves
SpecEarly == InitStop /\ [][NextEarly]_vars

\* C37: start() on a ready system whose listener is not running performs
\* the start-up rescan and binds the listener, whatever senderPaused is.
C37_StartAlwaysBinds ==
    [][(Start /\ statusReady /\ ~listenerRunning) =>
          /\ lifecycle' = "binding"
          /\ bind'.calls = bind.calls + 1
          /\ isStorageReadyExisting => Range(emlParkingQueue') = disk["parking"]]_vars

\* C37, the case: start() is called on a ready system whose listener is not
\* running, whose sender has been suspended and whose spool holds a file.
C37_Witness ==
    /\ lifecycle = "constructed" /\ statusReady /\ ~listenerRunning /\ senderPaused
    /\ isStorageReadyExisting /\ disk["parking"] # {}
    /\ ENABLED Start

\* ------------------------------------------------- folders out of band
\* this.eml*Dir of a spool directory is set.
DirField(d) ==
    CASE d = "parking" -> emlParkingDir
      [] d = "direct" -> emlDirectDir
      [] d = "error" -> emlErrorDir
      [] d = "parking_backup" -> emlParkingBackupDir
      [] d = "direct_backup" -> emlDirectBackupDir

\* A spool folder is removed from disk by something else than the program,
\* with its files, while no scan, forward, write or rename is in progress.
RemoveDir(d) ==
    /\ DirField(d) /\ d \notin gone
    /\ Cardinality(gone) < MaxGone
    /\ scanPending = {} /\ partial = {} /\ pendingMoves = {} /\ FreeSlots = Slots
    /\ gone' = gone \cup {d}
    /\ disk' = [disk EXCEPT ![d] = {}]
    /\ UNCHANGED <<named, apiVars, cfgVars, dirFields, queueVars, pauseVars, runVars, statusReady,
                   emlScanning, partial, pendingMoves, sess, relay, scanVars, histVars>>

\* The control API of routes.ts queried for status and storage while spool
\* folders may disappear; no producer connects and the ticker has no work.
NextOutOfBand ==
    \/ Lifecycle \/ startRemailerControlApi
    \/ (\E key \in Keys : GetStatus(key)) \/ (\E key \in Keys : GetStorage(key))
    \/ ScanReturns
    \/ (\E d \in Dirs : RemoveDir(d))
SpecOutOfBand == InitApi /\ [][NextOutOfBand]_vars

\* C38: the status query is read-only: it leaves the pause flags,
\* status.ready, the five queues and the availability of the five folders
\* as they were, also after a folder was removed from disk out of band.
C38_StatusReadOnly ==
    [][\A key \in Keys :
          GetStatus(key) => UNCHANGED <<pauseVars, statusReady, queueVars, dirFields>>]_vars

\* C38, the case: a status query has been answered after a folder of a
\* system with its five folders configured was removed from disk.
C38_Witness ==
    /\ api = "routes" /\ summary.taken /\ reply.code = 200
    /\ gone # {} /\ \E d \in gone : ~DirField(d)

\* Direct mode under operator control in which every callback arrives:
\* listen() calls back, every write, forward and rename completes, and a
\* suspended sender is resumed.
SpecResume ==
    InitDirect /\ [][NextDirect]_vars
    /\ WF_vars(Lifecycle) /\ WF_vars(IngressDirect) /\ WF_vars(IngressFail) /\ WF_vars(Moves)
    /\ WF_vars(suspendSender(FALSE))

\* C39: a direct-mode message stored in the direct folder while the sender
\* was paused is eventually forwarded once the sender is un-paused, unless
\* the sender is paused again first.
C39_StoredWhilePausedForwarded ==
    \A s \in Sessions :
        (sess[s].fwd = "skipped" /\ ~senderPaused)
            ~> (sent[NameOf(s)] > 0 \/ senderPaused)

\* C39, the case: a message was stored in the direct folder while the sender
\* was paused, and the sender has been un-paused.
C39_Witness ==
    /\ timerIntervalMs = 0 /\ ~senderPaused /\ senderSmtpHost /\ transporter
    /\ \E s \in Sessions : sess[s].fwd = "skipped" /\ NameOf(s) \in disk["direct"] \ partial

\* The folders a parking-mode message can rest in that hold f.
Keeps(f) == { d \in {"parking", "error", "parking_backup"} : f \in disk[d] }

\* The parking-mode messages that were acknowledged to their producer.
Acknowledged == { s \in Sessions : sess[s].path = "parking" /\ sess[s].ack = "ok" }

\* C40: no acknowledged parking-mode message is lost: its spool file is in
\* exactly one of parking, error and parking_backup, unless it was deleted
\* after a successful upstream forward with the backup disabled.
C40_AcknowledgedNotLost ==
    \A s \in Acknowledged :
        \/ Cardinality(Keeps(NameOf(s))) = 1
        \/ Keeps(NameOf(s)) = {} /\ sent[NameOf(s)] > 0 /\ ~backupEnabled

\* C40, the case: an acknowledged message was forwarded and its file
\* deleted, and another one failed and rests in the error folder.
C40_Witness ==
    /\ \E s \in Acknowledged : Keeps(NameOf(s)) = {} /\ sent[NameOf(s)] > 0
    /\ \E s \in Acknowledged : Keeps(NameOf(s)) = {"error"}

====
